---- MODULE Spec2Model ----
(***************************************************************************)
(* Typing practice (src/typing_practice.py): a word list read from a file, *)
(* a translation scraped from a dictionary page, and two front ends, the   *)
(* window MyWindow and the loop terminal_typing_practice, that compare a   *)
(* line of input with the current word.                                    *)
(*                                                                         *)
(* Python strings that the program trims or compares (lines of the file,   *)
(* words, input lines) are sequences of one-character strings, so that     *)
(* str.strip() is computed.  Translation texts are never converted and are *)
(* TLA+ strings.  time.time() reads the clock `now`.                       *)
(***************************************************************************)
EXTENDS Integers, Sequences, FiniteSets, TLC

VARIABLES words, now, gui, term

vars == <<words, now, gui, term>>

\* ------------------------------------------------------------- bounds
MaxWords == 2        \* lines in the word file
MaxFetch == 3        \* calls of crawl_translation in one session
MaxTime == 3         \* clock readings 0..MaxTime

\* The clock ticks one HTTP request may take: none, or one.
FetchTimes == {0, 1}

\* ------------------------------------------------------------ strings
\* The characters str.strip() removes (those the inputs here can hold).
Whitespace == {" ", "\n", "\t"}

RECURSIVE lstrip(_)
lstrip(s) == IF s # <<>> /\ Head(s) \in Whitespace THEN lstrip(Tail(s)) ELSE s

RECURSIVE rstrip(_)
rstrip(s) ==
    IF s # <<>> /\ s[Len(s)] \in Whitespace
    THEN rstrip(SubSeq(s, 1, Len(s) - 1))
    ELSE s

\* str.strip()
strip(s) == rstrip(lstrip(s))

\* The literal 'finish practice' of lines 81 and 177.
FinishCmd ==
    <<"f", "i", "n", "i", "s", "h", " ", "p", "r", "a", "c", "t", "i", "c", "e">>

\* The literal of line 150.
Sentinel == "No translation found."

\* An attribute or local that has not been assigned yet.
Unset == -1
NoWord == <<"<unset>">>
NoneValue == "<None>"

\* ---------------------------------------------------------- word file
LineHi == <<"h", "i", "\n">>
LineFinish == FinishCmd \o <<"\n">>
LineHiLast == <<"h", "i">>
Lines == {LineHi, LineFinish, LineHiLast}

\* read_file: f.readlines() keeps each line's "\n"; only the last line of a
\* file can lack it.  An empty file gives the empty list.
WordLists ==
    {w \in UNION {[1..n -> Lines] : n \in 0..MaxWords} :
        \A i \in 1..(Len(w) - 1) : w[i][Len(w[i])] = "\n"}

\* Lines the user can submit (QLineEdit.text(), input()): no line break.
Inputs ==
    {<<"h", "i">>, <<"h", "i", " ">>, <<"n", "o">>, FinishCmd,
     <<" ">> \o FinishCmd}

\* -------------------------------------------------- translation fetch
\* An element of the parsed page: its class attribute and its .text.
Translated == [class |-> {"trans", "dtrans"}, text |-> "ni hao"]
EmptyTrans == [class |-> {"trans", "dtrans"}, text |-> ""]
Definition == [class |-> {"def"}, text |-> "a greeting"]

\* Parsed pages: no element, none of class dtrans, one of class dtrans
\* after another element, one of class dtrans with no text before another.
Pages ==
    {<<>>, <<Definition>>, <<Definition, Translated>>,
     <<EmptyTrans, Translated>>}

\* What requests.get gives: a response whose body parses to a page, or an
\* exception (DNS, refused connection), which nothing catches.
NetFail == [ok |-> FALSE, page |-> <<>>]
Responses == {[ok |-> TRUE, page |-> p] : p \in Pages} \cup {NetFail}

\* soup.find(class_='dtrans'): the first element one of whose classes is
\* 'dtrans', or None.  0 stands for None.
find(page) ==
    IF \E i \in 1..Len(page) : "dtrans" \in page[i].class
    THEN CHOOSE i \in 1..Len(page) :
            /\ "dtrans" \in page[i].class
            /\ \A j \in 1..(i - 1) : "dtrans" \notin page[j].class
    ELSE 0

\* The candidate URLs of lines 136-138 (one).
url_cand == <<"cambridge zht">>

\* The loop of lines 141-150 over the URLs left: each pass returns, and a
\* loop over no URL falls off the function's end, which returns None.  A
\* Tag is truthy whatever its contents, so `if target_class` tests for None.
RECURSIVE crawl_loop(_, _)
crawl_loop(urls, page) ==
    IF urls = <<>>
    THEN NoneValue
    ELSE LET target_class == find(page)
         IN  IF target_class # 0 THEN page[target_class].text ELSE Sentinel

crawl_translation(page) == crawl_loop(url_cand, page)

\* ------------------------------------------------------ session state
\* One front end's state.  phase: NotStarted, Awaiting (a word is shown
\* and the front end waits for a line), Finished, Crashed (an uncaught
\* exception, named in error).  question: the word and translation last
\* shown; text, color, speed: the feedback last shown (speed is the pair
\* numerator, denominator of the char/s figure); reported: the count
\* printed by 'Practiced n words!'.
NotStarted ==
    [phase |-> "NotStarted", error |-> "none", cur_word |-> NoWord,
     succ_cnt |-> Unset, start_time |-> Unset,
     question |-> <<NoWord, "">>, response |-> NetFail,
     text |-> "", color |-> "", speed |-> <<0, 0>>, reported |-> Unset,
     fetch_cnt |-> 0, present_cnt |-> 0]

\* An exception nothing catches.
Raise(s, e) == [s EXCEPT !.phase = "Crashed", !.error = e]

\* Variant: a draw that gives an empty word for an empty population.
random_sample_default(population, d) ==
    IF Len(population) < 1
    THEN [raised |-> FALSE, error |-> "none", value |-> <<>>]
    ELSE [raised |-> FALSE, error |-> "none", value |-> population[d]]

\* random.sample(population, 1)[0], d the index drawn: it raises ValueError
\* ("Sample larger than population or is negative") when the population
\* has fewer than 1 element.
random_sample(population, d) ==
    IF Len(population) < 1
    THEN [raised |-> TRUE, error |-> "ValueError", value |-> NoWord]
    ELSE [raised |-> FALSE, error |-> "none", value |-> population[d]]

\* The indexes a draw can give.
DrawSet == IF Len(words) < 1 THEN {0} ELSE 1..Len(words)

\* Variant: the drawn line is not trimmed.
RandWord_untrimmed(d) == random_sample(words, d).value

\* str(random.sample(words, 1)[0].strip())
RandWord(d) == strip(random_sample(words, d).value)

\* ---------------------------------------------------------- MyWindow
\* fetch_word, with the assignment of its return value to cur_word that
\* both callers make (lines 58 and 80).  p is what the request gives, t the
\* clock when the request has returned.
fetch_word(s, d, p, t) ==
    IF random_sample(words, d).raised
    THEN Raise(s, random_sample(words, d).error)
    ELSE IF ~p.ok
    THEN Raise([s EXCEPT !.fetch_cnt = @ + 1], "ConnectionError")
    ELSE [s EXCEPT !.fetch_cnt = @ + 1,
                   !.response = p,
                   !.question = <<RandWord(d), crawl_translation(p.page)>>,
                   !.present_cnt = @ + 1,
                   !.start_time = t,
                   !.cur_word = RandWord(d)]

\* __init__, then window.show() and app.exec_() of lines 192-194.
init_window(s, d, p, t) ==
    LET r == fetch_word([s EXCEPT !.succ_cnt = 0], d, p, t)
    IN  IF r.phase = "Crashed" THEN r ELSE [r EXCEPT !.phase = "Awaiting"]

\* Lines 77-80: t the clock when the line is entered, dt the time the
\* request of fetch_word takes.  A zero elapsed time makes the division
\* raise ZeroDivisionError, after succ_cnt was incremented.
gui_correct(s, d, p, t, dt) ==
    LET s1 == [s EXCEPT !.succ_cnt = @ + 1, !.color = "green"]
    IN  IF t - s.start_time = 0
        THEN Raise(s1, "ZeroDivisionError")
        ELSE fetch_word([s1 EXCEPT !.text = "correct!",
                                   !.speed = <<Len(s.cur_word), t - s.start_time>>],
                        d, p, t + dt)

\* Variant: the count is printed but the window is not closed.
gui_finish_open(s) ==
    [s EXCEPT !.color = "yellow", !.reported = s.succ_cnt]

\* Lines 82-84.
gui_finish(s) ==
    [s EXCEPT !.color = "yellow", !.reported = s.succ_cnt, !.phase = "Finished"]

\* Variant: the wrong branch leaves the timer alone.
gui_wrong_keep_timer(s, t) ==
    [s EXCEPT !.color = "red", !.text = "wrong!"]

\* Lines 86-88.
gui_wrong(s, t) ==
    [s EXCEPT !.color = "red", !.text = "wrong!", !.start_time = t]

\* enter_text on the line I.
enter_text(s, I, d, p, t, dt) ==
    LET answer == strip(I)
    IN  IF answer = s.cur_word THEN gui_correct(s, d, p, t, dt)
        ELSE IF answer = FinishCmd THEN gui_finish(s)
        ELSE gui_wrong(s, t)

\* ------------------------------------------- terminal_typing_practice
\* Lines 173-175, the top of the loop: fetch and print the word, read the
\* clock, wait for a line.
present(s, p, t) ==
    IF ~p.ok
    THEN Raise([s EXCEPT !.fetch_cnt = @ + 1], "ConnectionError")
    ELSE [s EXCEPT !.fetch_cnt = @ + 1,
                   !.response = p,
                   !.question = <<s.cur_word, crawl_translation(p.page)>>,
                   !.present_cnt = @ + 1,
                   !.start_time = t,
                   !.phase = "Awaiting"]

\* Lines 169-175: the first draw and the first pass to input().
terminal_start(s, d, p, t) ==
    IF random_sample(words, d).raised
    THEN Raise(s, random_sample(words, d).error)
    ELSE present([s EXCEPT !.cur_word = RandWord(d), !.succ_cnt = 0], p, t)

\* Lines 178-179.
term_finish(s) ==
    [s EXCEPT !.color = "yellow", !.reported = s.succ_cnt, !.phase = "Finished"]

\* Lines 181-183, then the top of the loop.  The division is evaluated
\* before succ_cnt is incremented.
term_correct(s, d, p, t, dt) ==
    IF t - s.start_time = 0
    THEN Raise(s, "ZeroDivisionError")
    ELSE present([s EXCEPT !.text = "correct!",
                           !.color = "green",
                           !.speed = <<Len(s.cur_word), t - s.start_time>>,
                           !.succ_cnt = @ + 1,
                           !.cur_word = RandWord(d)],
                 p, t + dt)

\* Variant: a wrong answer costs a point.
term_wrong_penalty(s, p, t, dt) ==
    present([s EXCEPT !.text = "wrong!", !.color = "red", !.succ_cnt = @ - 1],
            p, t + dt)

\* Variant: the timer is started only when a word is new.
term_wrong_keep_timer(s, p, t, dt) ==
    LET r == present([s EXCEPT !.text = "wrong!", !.color = "red"], p, t + dt)
    IN  [r EXCEPT !.start_time = s.start_time]

\* Variant: the word is printed again with the translation kept from the
\* first fetch.
term_wrong_cached(s, p, t, dt) ==
    [s EXCEPT !.text = "wrong!", !.color = "red",
              !.present_cnt = @ + 1, !.start_time = t + dt]

\* Line 185, then the top of the loop.
term_wrong(s, p, t, dt) ==
    present([s EXCEPT !.text = "wrong!", !.color = "red"], p, t + dt)

\* One pass of the loop from the line I that input() returns to the next
\* input().
terminal_input(s, I, d, p, t, dt) ==
    IF I = FinishCmd THEN term_finish(s)
    ELSE IF I = s.cur_word THEN term_correct(s, d, p, t, dt)
    ELSE term_wrong(s, p, t, dt)

\* ------------------------------------------------------------ actions
TypeOK ==
    /\ words \in WordLists
    /\ now \in 0..MaxTime
    /\ gui.phase \in {"NotStarted", "Awaiting", "Finished", "Crashed"}
    /\ term.phase \in {"NotStarted", "Awaiting", "Finished", "Crashed"}

\* The word file is read (line 189); neither front end has started.
Init ==
    /\ words \in WordLists
    /\ now = 0
    /\ gui = NotStarted
    /\ term = NotStarted

\* The clock of time.time() advances.
Tick ==
    /\ now < MaxTime
    /\ now' = now + 1
    /\ UNCHANGED <<words, gui, term>>

\* The clock after a handler: it has advanced by the request's time if the
\* handler made a request.
After(s, s2, dt) == IF s2.fetch_cnt # s.fetch_cnt THEN now + dt ELSE now

\* A handler that makes no draw and no request leaves the next draw, the
\* next response and its duration unread: they are fixed then, so that the
\* step is generated once.
Idle(d, p, dt) == d = 1 /\ p = NetFail /\ dt = 0

\* Typing a line takes time: the clock read when a line is entered is
\* later than the reading that last started the front end's timer.
Typed(s) == now > s.start_time

GuiStartStep(d, p, dt) ==
    /\ gui.phase = "NotStarted"
    /\ now + dt <= MaxTime
    /\ gui' = init_window(gui, d, p, now + dt)

GuiEnterStep(I, d, p, dt) ==
    /\ gui.phase = "Awaiting"
    /\ Typed(gui)
    /\ gui.fetch_cnt < MaxFetch
    /\ strip(I) # gui.cur_word => Idle(d, p, dt)
    /\ now + dt <= MaxTime
    /\ gui' = enter_text(gui, I, d, p, now, dt)

TermStartStep(d, p, dt) ==
    /\ term.phase = "NotStarted"
    /\ now + dt <= MaxTime
    /\ term' = terminal_start(term, d, p, now + dt)

TermInputStep(I, d, p, dt) ==
    /\ term.phase = "Awaiting"
    /\ Typed(term)
    /\ term.fetch_cnt < MaxFetch
    /\ I = FinishCmd => Idle(d, p, dt)
    /\ I # term.cur_word => d = 1
    /\ now + dt <= MaxTime
    /\ term' = terminal_input(term, I, d, p, now, dt)

\* 'y' at line 190: the window is built and shown.
GuiStart ==
    /\ term.phase = "NotStarted"
    /\ UNCHANGED <<words, term>>
    /\ \E d \in DrawSet, p \in Responses, dt \in FetchTimes :
          /\ GuiStartStep(d, p, dt)
          /\ now' = After(gui, gui', dt)

\* returnPressed: the slot enter_text runs on the line I.
GuiEnter(I) ==
    /\ UNCHANGED <<words, term>>
    /\ \E d \in DrawSet, p \in Responses, dt \in FetchTimes :
          /\ GuiEnterStep(I, d, p, dt)
          /\ now' = After(gui, gui', dt)

\* Any other answer at line 190: the terminal loop starts.
TermStart ==
    /\ gui.phase = "NotStarted"
    /\ UNCHANGED <<words, gui>>
    /\ \E d \in DrawSet, p \in Responses, dt \in FetchTimes :
          /\ TermStartStep(d, p, dt)
          /\ now' = After(term, term', dt)

\* input() returns the line I.
TermInput(I) ==
    /\ UNCHANGED <<words, gui>>
    /\ \E d \in DrawSet, p \in Responses, dt \in FetchTimes :
          /\ TermInputStep(I, d, p, dt)
          /\ now' = After(term, term', dt)

Next ==
    \/ Tick
    \/ GuiStart
    \/ \E I \in Inputs : GuiEnter(I)
    \/ TermStart
    \/ \E I \in Inputs : TermInput(I)

\* One run of the program: one front end per run.
Spec == Init /\ [][Next]_vars

\* Both front ends side by side on the same word list, the same draws, the
\* same responses and the same lines.
BothStart ==
    /\ \E d \in DrawSet, p \in Responses, dt \in FetchTimes :
          /\ GuiStartStep(d, p, dt)
          /\ TermStartStep(d, p, dt)
          /\ now' = now + dt
    /\ UNCHANGED words

BothEnter(I) ==
    /\ \E d \in DrawSet, p \in Responses, dt \in FetchTimes :
          /\ gui.phase = "Awaiting"
          /\ term.phase = "Awaiting"
          /\ Typed(gui)
          /\ Typed(term)
          /\ gui.fetch_cnt < MaxFetch
          /\ term.fetch_cnt < MaxFetch
          /\ now + dt <= MaxTime
          /\ (I = FinishCmd /\ strip(I) # gui.cur_word) => Idle(d, p, dt)
          /\ gui' = enter_text(gui, I, d, p, now, dt)
          /\ term' = terminal_input(term, I, d, p, now, dt)
          /\ now' = now + dt
    /\ UNCHANGED words

BothTick ==
    /\ gui.phase = "Awaiting"
    /\ term.phase = "Awaiting"
    /\ Tick

NextBoth ==
    \/ BothTick
    \/ BothStart
    \/ \E I \in Inputs : BothEnter(I)

SpecBoth == Init /\ [][NextBoth]_vars

\* ------------------------------------------------------------- claims
FrontEnds == {gui, term}

\* A wrong answer's effect on a front end, from s to s2.
WrongFrame(s, s2) ==
    /\ s2.cur_word = s.cur_word
    /\ s2.succ_cnt = s.succ_cnt
    /\ s2.text = "wrong!"
    /\ s2.color = "red"

\* The exit command's effect on a front end, from s to s2.
Exits(s, s2) ==
    /\ s2.phase = "Finished"
    /\ s2.reported = s.succ_cnt
    /\ s2.succ_cnt = s.succ_cnt

\* C1: in both front ends, a step that submits a line equal to the current
\* word increments succ_cnt by exactly 1, whatever the current word is.
C1_ExactWordIncrements ==
    [][\A I \in Inputs :
          /\ (I = gui.cur_word /\ GuiEnter(I))
                => gui'.succ_cnt = gui.succ_cnt + 1
          /\ (I = term.cur_word /\ TermInput(I))
                => term'.succ_cnt = term.succ_cnt + 1]_vars

C3_FinishAlwaysExits ==
    [][/\ GuiEnter(FinishCmd) => Exits(gui, gui')
       /\ TermInput(FinishCmd) => Exits(term, term')]_vars

\* C3 amended: a step that submits 'finish practice' ends the session and
\* reports succ_cnt, which it leaves unchanged: in the terminal whatever
\* the current word is, in the window when the current word is not
\* 'finish practice' (when it is, the line is scored as a correct answer
\* and the session goes on).  A finished front end takes no further step.
C3_FinishExits ==
    [][/\ (gui.cur_word # FinishCmd /\ GuiEnter(FinishCmd))
             => Exits(gui, gui')
       /\ (gui.cur_word = FinishCmd /\ GuiEnter(FinishCmd))
             => (gui'.phase # "Finished" /\ gui'.succ_cnt = gui.succ_cnt + 1)
       /\ TermInput(FinishCmd) => Exits(term, term')
       /\ gui.phase = "Finished" => gui' = gui
       /\ term.phase = "Finished" => term' = term]_vars

\* The window was closed by the command after a correct answer.
C3_Witness ==
    /\ gui.phase = "Finished"
    /\ gui.color = "yellow"
    /\ gui.succ_cnt >= 1
    /\ gui.reported = gui.succ_cnt

\* C4 as stated: the current word of a front end is one of the lines of
\* the word list that read_file returned.
C4_CurWordInWordList ==
    \A s \in FrontEnds :
        s.cur_word # NoWord => \E i \in 1..Len(words) : words[i] = s.cur_word

\* C4 amended: the current word of a front end is the trimmed form of one
\* of the lines of the word list that read_file returned.
C4_CurWordIsTrimmedLine ==
    \A s \in FrontEnds :
        s.cur_word # NoWord
            => \E i \in 1..Len(words) : strip(words[i]) = s.cur_word

\* A word is current that is no line of the list, after a correct answer.
C4_Witness ==
    /\ gui.phase = "Awaiting"
    /\ gui.succ_cnt >= 1
    /\ gui.cur_word = <<"h", "i">>
    /\ \A i \in 1..Len(words) : words[i] # gui.cur_word

\* What C5 compares: the current word, the count, whether the session has
\* finished, and the verdict (the feedback's colour).
View(s) == <<s.cur_word, s.succ_cnt, s.phase = "Finished", s.color>>

\* C5: side by side on the same word list, draws and lines, the two front
\* ends are in the same (cur_word, succ_cnt, finished) state with the same
\* verdict, as long as neither has died of an exception.
C5_SameSession ==
    (gui.phase # "Crashed" /\ term.phase # "Crashed") => View(gui) = View(term)

\* C6: the translation a front end shows is never empty and never None,
\* and it is the sentinel exactly when the page of the response has no
\* element of class dtrans.
C6_TranslationOrSentinel ==
    \A s \in FrontEnds :
        s.present_cnt > 0 =>
            /\ s.question[2] # ""
            /\ s.question[2] # NoneValue
            /\ s.question[2] = Sentinel
                  <=> \A i \in 1..Len(s.response.page) :
                         "dtrans" \notin s.response.page[i].class

\* C7 as stated: in the terminal a wrong answer leaves the current word
\* and start_time as they were.
C7_TermWrongKeepsTimer ==
    [][\A I \in Inputs :
          (I # term.cur_word /\ I # FinishCmd /\ TermInput(I)
              /\ term'.phase = "Awaiting")
            => (term'.cur_word = term.cur_word
                  /\ term'.start_time = term.start_time)]_vars

\* C7 amended: in the terminal a wrong answer leaves the current word as it
\* was, and the loop shows the word again and sets start_time to the clock
\* at that moment; a correct answer's speed is the word's length over the
\* time since start_time, the latest showing of the word.
C7_TermWrongRestartsTimer ==
    [][\A I \in Inputs :
          /\ (I # term.cur_word /\ I # FinishCmd /\ TermInput(I)
                 /\ term'.phase = "Awaiting")
               => /\ term'.cur_word = term.cur_word
                  /\ term'.present_cnt = term.present_cnt + 1
                  /\ term'.start_time = now'
          /\ (I = term.cur_word /\ I # FinishCmd /\ TermInput(I)
                 /\ now # term.start_time)
               => term'.speed = <<Len(term.cur_word), now - term.start_time>>]_vars

\* The same word was shown a second time after a wrong answer, later than
\* any first showing can be.
C7_Witness ==
    /\ term.phase = "Awaiting"
    /\ term.color = "red"
    /\ term.present_cnt = 2
    /\ term.succ_cnt = 0
    /\ \A dt \in FetchTimes : term.start_time > dt

\* C8: in the window a wrong answer draws no word, makes no request, shows
\* the same question and sets start_time to the clock at that answer; a
\* correct answer's speed is the word's length over the time since
\* start_time.
C8_GuiWrongResetsTimer ==
    [][\A I \in Inputs :
          /\ (strip(I) # gui.cur_word /\ strip(I) # FinishCmd /\ GuiEnter(I))
               => /\ gui'.cur_word = gui.cur_word
                  /\ gui'.question = gui.question
                  /\ gui'.fetch_cnt = gui.fetch_cnt
                  /\ gui'.present_cnt = gui.present_cnt
                  /\ gui'.start_time = now
                  /\ now' = now
          /\ (strip(I) = gui.cur_word /\ now # gui.start_time /\ GuiEnter(I))
               => gui'.speed = <<Len(gui.cur_word), now - gui.start_time>>]_vars

\* A wrong answer in the window, on the first word, set the timer to a
\* moment later than the word's showing can be.
C8_Witness ==
    /\ gui.phase = "Awaiting"
    /\ gui.color = "red"
    /\ gui.fetch_cnt = 1
    /\ gui.start_time = now
    /\ \A dt \in FetchTimes : now > dt

C10_EmptyListIndexError ==
    \A s \in FrontEnds :
        (words = <<>> /\ s.phase # "NotStarted")
            => /\ s.phase = "Crashed"
               /\ s.error = "IndexError"
               /\ s.present_cnt = 0
               /\ s.fetch_cnt = 0

\* C10 amended: with an empty word list a started front end has died of
\* the ValueError of random.sample with no word shown and no request made;
\* it never waits for a line.
C10_EmptyListValueError ==
    \A s \in FrontEnds :
        (words = <<>> /\ s.phase # "NotStarted")
            => /\ s.phase = "Crashed"
               /\ s.error = "ValueError"
               /\ s.present_cnt = 0
               /\ s.fetch_cnt = 0

\* The window was started on an empty word list.
C10_Witness ==
    /\ words = <<>>
    /\ gui.phase = "Crashed"

====
